---- MODULE Spec2Model ----
(***************************************************************************)
(* Model of convert_dictionaries.py: the line parser, the file converter   *)
(* (convert_txt_to_json) and the job runner (main).                        *)
(*                                                                         *)
(* Text is a sequence of one-character strings.  A source file is the      *)
(* sequence of lines Python's file iteration yields (each line keeps its   *)
(* terminator).  A destination file is the character sequence handed to    *)
(* f.write so far; each f.write call is one step.  An uncaught exception   *)
(* ends the run of main (pc = "crashed").  The console output kept is that *)
(* of the current run; the files outlive the run.                          *)
(***************************************************************************)
EXTENDS Integers, Sequences, FiniteSets, TLC

VARIABLES src, dst, pc, run, cur, line_num, entries, i, out

vars == <<src, dst, pc, run, cur, line_num, entries, i, out>>

(* ------------------------------ bounds --------------------------------- *)
\* number of entries of the conversions list that are modelled
MaxJobs == 2
\* number of lines of the richest source file
MaxLines == 3
\* number of times the script is run on the same directory
MaxRuns == 2
\* length of the lines enumerated for the line parser
MaxLineLen == 5

(* --------------------------- str primitives ---------------------------- *)
\* characters str.strip() and str.split() treat as whitespace (those of the
\* input alphabet; Python's set also holds \v, \f, 0x1c-0x1f and the Unicode
\* spaces)
IsSpace(c) == c \in {" ", "\t", "\n", "\r"}

RECURSIVE LStrip(_)
LStrip(s) == IF s # <<>> /\ IsSpace(Head(s)) THEN LStrip(Tail(s)) ELSE s

RECURSIVE RStrip(_)
RStrip(s) ==
  IF s # <<>> /\ IsSpace(s[Len(s)]) THEN RStrip(SubSeq(s, 1, Len(s) - 1)) ELSE s

\* line.strip()
Strip(s) == RStrip(LStrip(s))

\* length of the leading run of non-whitespace characters
RECURSIVE WordLen(_)
WordLen(s) == IF s = <<>> \/ IsSpace(Head(s)) THEN 0 ELSE 1 + WordLen(Tail(s))

\* line.split(): the maximal runs of non-whitespace characters, in order
RECURSIVE Split(_)
Split(s) ==
  LET t == LStrip(s) IN
  IF t = <<>> THEN <<>>
  ELSE LET n == WordLen(t) IN <<SubSeq(t, 1, n)>> \o Split(SubSeq(t, n + 1, Len(t)))

\* ''.join(parts): the tokens of the word run together
RECURSIVE Join_Concat(_)
Join_Concat(parts) ==
  IF parts = <<>> THEN <<>> ELSE Head(parts) \o Join_Concat(Tail(parts))

\* ' '.join(parts)
RECURSIVE Join(_)
Join(parts) ==
  IF parts = <<>> THEN <<>>
  ELSE IF Len(parts) = 1 THEN parts[1]
  ELSE parts[1] \o <<" ">> \o Join(Tail(parts))

(* ------------------------------- int() --------------------------------- *)
Digits == <<"0", "1", "2", "3", "4", "5", "6", "7", "8", "9">>

IsDigit(c) == \E k \in 1..10 : Digits[k] = c

DigitVal(c) == (CHOOSE k \in 1..10 : Digits[k] = c) - 1

\* what int() takes after the sign: ASCII digits (Python takes any Unicode
\* decimal digit too), with single underscores allowed between two digits
IsDigitBody(s) ==
  /\ s # <<>>
  /\ \A k \in 1..Len(s) :
       \/ IsDigit(s[k])
       \/ /\ s[k] = "_"
          /\ k > 1
          /\ k < Len(s)
          /\ IsDigit(s[k - 1])
          /\ IsDigit(s[k + 1])

HasSign(t) == t # <<>> /\ t[1] \in {"+", "-"}

\* frequency.isdigit(): a sign is not taken
IntParses_Unsigned(t) == IsDigitBody(t)

\* int(frequency) does not raise ValueError
IntParses(t) == IsDigitBody(IF HasSign(t) THEN Tail(t) ELSE t)

RECURSIVE BodyValue(_, _)
BodyValue(s, acc) ==
  IF s = <<>> THEN acc
  ELSE IF Head(s) = "_" THEN BodyValue(Tail(s), acc)
  ELSE BodyValue(Tail(s), 10 * acc + DigitVal(Head(s)))

\* int(frequency), for a token that parses
IntValue(t) ==
  IF HasSign(t)
  THEN (IF t[1] = "-" THEN 0 - BodyValue(Tail(t), 0) ELSE BodyValue(Tail(t), 0))
  ELSE BodyValue(t, 0)

(* ---------------------------- json.dumps ------------------------------- *)
RECURSIVE NatToStr(_)
NatToStr(n) ==
  IF n < 10 THEN <<Digits[n + 1]>>
  ELSE NatToStr(n \div 10) \o <<Digits[(n % 10) + 1]>>

IntToStr(n) == IF n < 0 THEN <<"-">> \o NatToStr(0 - n) ELSE NatToStr(n)

\* JSON string escaping of the characters a word can hold (ensure_ascii=False)
RECURSIVE JsonEscape(_)
JsonEscape(w) ==
  IF w = <<>> THEN <<>>
  ELSE (IF Head(w) \in {"\"", "\\"} THEN <<"\\", Head(w)>> ELSE <<Head(w)>>)
       \o JsonEscape(Tail(w))

\* json.dumps(entry, ensure_ascii=False, separators=(',', ':'))
JsonDumps(entry) ==
  <<"{", "\"", "w", "\"", ":", "\"">> \o JsonEscape(entry.w)
    \o <<"\"", ",", "\"", "f", "\"", ":">> \o IntToStr(entry.f) \o <<"}">>

\* a comma after every entry, the last one too
EntryLine_AlwaysComma(entry, idx, n) ==
  <<" ", " ">> \o JsonDumps(entry) \o <<",", "\n">>

\* the text of one f.write call of the entry loop
EntryLine(entry, idx, n) ==
  IF idx < n - 1
  THEN <<" ", " ">> \o JsonDumps(entry) \o <<",", "\n">>
  ELSE <<" ", " ">> \o JsonDumps(entry) \o <<"\n">>

(* ---------------------------- console output --------------------------- *)
Ev(ev, job, n, text) == [ev |-> ev, job |-> job, n |-> n, text |-> text]

\* print(...)
Emit(o, e) == Append(o, e)

(* ----------------------------- line parser ----------------------------- *)
\* enumerate(f) without the start of 1: warnings carry 0-based line numbers
ParseLine_ZeroBased(n, raw) ==
  LET line == Strip(raw) IN
  IF line = <<>> THEN [kind |-> "blank", w |-> <<>>, f |-> 0, warn |-> Ev("none", 0, 0, <<>>)]
  ELSE
    LET parts == Split(line) IN
    IF Len(parts) < 2
    THEN [kind |-> "rejected", w |-> <<>>, f |-> 0,
          warn |-> Ev("invalid_format", 0, n - 1, line)]
    ELSE
      LET frequency == parts[Len(parts)]
          word == Join(SubSeq(parts, 1, Len(parts) - 1))
      IN IF IntParses(frequency)
         THEN [kind |-> "entry", w |-> word, f |-> IntValue(frequency),
               warn |-> Ev("none", 0, 0, <<>>)]
         ELSE [kind |-> "rejected", w |-> <<>>, f |-> 0,
               warn |-> Ev("invalid_frequency", 0, n - 1, frequency)]

\* the body of the loop over the source lines, for line number n
ParseLine(n, raw) ==
  LET line == Strip(raw) IN
  IF line = <<>> THEN [kind |-> "blank", w |-> <<>>, f |-> 0, warn |-> Ev("none", 0, 0, <<>>)]
  ELSE
    LET parts == Split(line) IN
    IF Len(parts) < 2
    THEN [kind |-> "rejected", w |-> <<>>, f |-> 0,
          warn |-> Ev("invalid_format", 0, n, line)]
    ELSE
      LET frequency == parts[Len(parts)]
          word == Join(SubSeq(parts, 1, Len(parts) - 1))
      IN IF IntParses(frequency)
         THEN [kind |-> "entry", w |-> word, f |-> IntValue(frequency),
               warn |-> Ev("none", 0, 0, <<>>)]
         ELSE [kind |-> "rejected", w |-> <<>>, f |-> 0,
               warn |-> Ev("invalid_frequency", 0, n, frequency)]

\* an entry whose word is already listed is not added again
Accumulate_Dedup(es, r) ==
  IF r.kind = "entry" /\ \A k \in 1..Len(es) : es[k].w # r.w
  THEN Append(es, [w |-> r.w, f |-> r.f])
  ELSE es

\* a rejected line discards the entries collected so far
Accumulate_Reset(es, r) ==
  IF r.kind = "entry" THEN Append(es, [w |-> r.w, f |-> r.f])
  ELSE IF r.kind = "rejected" THEN <<>>
  ELSE es

\* entries after the loop body has run with result r
Accumulate(es, r) ==
  IF r.kind = "entry" THEN Append(es, [w |-> r.w, f |-> r.f]) ELSE es

(* ------------------------------- inputs -------------------------------- *)
LineA == <<"a", " ", "1", "2", "\n">>
LineB == <<"b", " ", " ", "c", "\t", "-", "7", "\n">>
LineBlank == <<" ", "\n">>
LineOneToken == <<"a", "\n">>
LineBadFreq == <<"a", " ", "x", "\n">>

LineSet == {LineA, LineB, LineBlank, LineOneToken, LineBadFreq}

SeqsUpTo(S, n) == UNION {[1..k -> S] : k \in 0..n}

RichFiles == {[exists |-> TRUE, lines |-> ls] : ls \in SeqsUpTo(LineSet, MaxLines)}

Missing == [exists |-> FALSE, lines |-> <<>>]

SmallFiles == {Missing, [exists |-> TRUE, lines |-> <<LineA, LineB>>]}

BasicFiles == SmallFiles \cup {[exists |-> TRUE, lines |-> <<LineBadFreq>>]}

OldContent == <<"o", "l", "d">>

NoFile == [exists |-> FALSE, data |-> <<>>]

DestFiles == {NoFile, [exists |-> TRUE, data |-> OldContent]}

Jobs == 1..MaxJobs

Chars == {"a", " ", "\t", "0", "1", "-", "+", "_"}

AllLines == SeqsUpTo(Chars, MaxLineLen)

(* ------------------------------- states -------------------------------- *)
\* the script has not run yet; the directory holds any of the basic files
Init ==
  /\ src \in [Jobs -> BasicFiles]
  /\ dst \in [Jobs -> DestFiles]
  /\ pc = "idle"
  /\ run = 0
  /\ cur = 1
  /\ line_num = 0
  /\ entries = <<>>
  /\ i = 0
  /\ out = <<>>

\* python convert_dictionaries.py, for the first time
StartRun ==
  /\ pc = "idle"
  /\ run' = 1
  /\ pc' = "loop"
  /\ UNCHANGED <<src, dst, cur, line_num, entries, i, out>>

\* python convert_dictionaries.py again, after a run has ended either way
Rerun ==
  /\ pc \in {"done", "crashed"}
  /\ run < MaxRuns
  /\ run' = run + 1
  /\ pc' = "loop"
  /\ cur' = 1
  /\ line_num' = 0
  /\ entries' = <<>>
  /\ i' = 0
  /\ out' = <<>>
  /\ UNCHANGED <<src, dst>>

\* a missing source ends the loop (break instead of continue)
SkipJob_Break ==
  /\ pc = "loop"
  /\ cur <= MaxJobs
  /\ ~src[cur].exists
  /\ out' = Emit(out, Ev("not_found", cur, 0, <<>>))
  /\ pc' = "done"
  /\ UNCHANGED <<src, dst, run, cur, line_num, entries, i>>

\* the source of the current job does not exist
SkipJob ==
  /\ pc = "loop"
  /\ cur <= MaxJobs
  /\ ~src[cur].exists
  /\ out' = Emit(out, Ev("not_found", cur, 0, <<>>))
  /\ cur' = cur + 1
  /\ UNCHANGED <<src, dst, pc, run, line_num, entries, i>>

\* the destination is opened for writing before the source is read
BeginConvert_OpenDestFirst ==
  /\ pc = "loop"
  /\ cur <= MaxJobs
  /\ src[cur].exists
  /\ entries' = <<>>
  /\ line_num' = 0
  /\ dst' = [dst EXCEPT ![cur] = [exists |-> TRUE, data |-> <<>>]]
  /\ out' = Emit(out, Ev("reading", cur, 0, <<>>))
  /\ pc' = "read"
  /\ UNCHANGED <<src, run, cur, i>>

\* convert_txt_to_json is entered and the source is opened
BeginConvert ==
  /\ pc = "loop"
  /\ cur <= MaxJobs
  /\ src[cur].exists
  /\ entries' = <<>>
  /\ line_num' = 0
  /\ out' = Emit(out, Ev("reading", cur, 0, <<>>))
  /\ pc' = "read"
  /\ UNCHANGED <<src, dst, run, cur, i>>

\* one iteration of the loop over the source lines
ReadLine ==
  /\ pc = "read"
  /\ line_num < Len(src[cur].lines)
  /\ LET r == ParseLine(line_num + 1, src[cur].lines[line_num + 1]) IN
       /\ entries' = Accumulate(entries, r)
       /\ out' = IF r.kind = "rejected" THEN Emit(out, r.warn) ELSE out
  /\ line_num' = line_num + 1
  /\ UNCHANGED <<src, dst, pc, run, cur, i>>

\* reading the source raises (decoding or I/O error); nothing catches it
ReadFail ==
  /\ pc = "read"
  /\ out' = Emit(out, Ev("traceback", cur, 0, <<"r">>))
  /\ pc' = "crashed"
  /\ UNCHANGED <<src, dst, run, cur, line_num, entries, i>>

\* the source is exhausted and closed
EndOfSource ==
  /\ pc = "read"
  /\ line_num = Len(src[cur].lines)
  /\ out' = Emit(out, Ev("writing", cur, Len(entries), <<>>))
  /\ pc' = "open_dst"
  /\ UNCHANGED <<src, dst, run, cur, line_num, entries, i>>

\* open(json_file, 'a'): an existing destination keeps its content
OpenDest_Append ==
  /\ pc = "open_dst"
  /\ dst' = [dst EXCEPT ![cur] = [exists |-> TRUE, data |-> dst[cur].data]]
  /\ pc' = "write_head"
  /\ UNCHANGED <<src, run, cur, line_num, entries, i, out>>

\* open(json_file, 'w') creates or truncates the destination
OpenDest ==
  /\ pc = "open_dst"
  /\ dst' = [dst EXCEPT ![cur] = [exists |-> TRUE, data |-> <<>>]]
  /\ pc' = "write_head"
  /\ UNCHANGED <<src, run, cur, line_num, entries, i, out>>

\* f.write('[\n')
WriteHead ==
  /\ pc = "write_head"
  /\ dst' = [dst EXCEPT ![cur].data = @ \o <<"[", "\n">>]
  /\ i' = 0
  /\ pc' = "write_entries"
  /\ UNCHANGED <<src, run, cur, line_num, entries, out>>

\* one iteration of the loop over the entries
WriteEntry ==
  /\ pc = "write_entries"
  /\ i < Len(entries)
  /\ dst' = [dst EXCEPT ![cur].data = @ \o EntryLine(entries[i + 1], i, Len(entries))]
  /\ i' = i + 1
  /\ UNCHANGED <<src, pc, run, cur, line_num, entries, out>>

\* f.write(']'), the file is closed and convert_txt_to_json returns
WriteTail ==
  /\ pc = "write_entries"
  /\ i = Len(entries)
  /\ dst' = [dst EXCEPT ![cur].data = @ \o <<"]">>]
  /\ out' = Emit(out, Ev("complete", cur, Len(entries), <<>>))
  /\ cur' = cur + 1
  /\ pc' = "loop"
  /\ UNCHANGED <<src, run, line_num, entries, i>>

\* opening the destination or an f.write raises OSError; nothing catches it
WriteFail ==
  /\ pc \in {"open_dst", "write_head", "write_entries"}
  /\ out' = Emit(out, Ev("traceback", cur, 0, <<"w">>))
  /\ pc' = "crashed"
  /\ UNCHANGED <<src, dst, run, cur, line_num, entries, i>>

\* the conversions list is exhausted
Finish ==
  /\ pc = "loop"
  /\ cur > MaxJobs
  /\ pc' = "done"
  /\ UNCHANGED <<src, dst, run, cur, line_num, entries, i, out>>

OneRun ==
  \/ StartRun
  \/ SkipJob
  \/ BeginConvert
  \/ ReadLine
  \/ ReadFail
  \/ EndOfSource
  \/ OpenDest
  \/ WriteHead
  \/ WriteEntry
  \/ WriteTail
  \/ WriteFail
  \/ Finish

Next ==
  \/ OneRun
  \/ Rerun

\* the script run any number of times on the same directory
Spec == Init /\ [][Next]_vars

\* one run over a directory where one source is any file up to MaxLines lines
InitRun ==
  /\ \E r \in Jobs, f \in RichFiles \cup SmallFiles, g \in [Jobs -> SmallFiles] :
       src = [g EXCEPT ![r] = f]
  /\ dst \in [Jobs -> DestFiles]
  /\ pc = "idle"
  /\ run = 0
  /\ cur = 1
  /\ line_num = 0
  /\ entries = <<>>
  /\ i = 0
  /\ out = <<>>

NextRun == OneRun

SpecRun == InitRun /\ [][NextRun]_vars

\* the line parser applied to every line over Chars up to MaxLineLen
InitLine ==
  /\ \E l \in AllLines :
       src = [j \in Jobs |-> IF j = 1 THEN [exists |-> TRUE, lines |-> <<l>>] ELSE Missing]
  /\ dst = [j \in Jobs |-> NoFile]
  /\ pc = "read"
  /\ run = 1
  /\ cur = 1
  /\ line_num = 0
  /\ entries = <<>>
  /\ i = 0
  /\ out = <<Ev("reading", 1, 0, <<>>)>>

NextLine == ReadLine

SpecLine == InitLine /\ [][NextLine]_vars

(* ----------------- vocabulary of the properties ------------------------ *)
\* positions of a line where a whitespace-separated token starts
TokenStarts(l) ==
  {k \in 1..Len(l) : ~IsSpace(l[k]) /\ (k = 1 \/ IsSpace(l[k - 1]))}

TokenCount(l) == Cardinality(TokenStarts(l))

MaxOf(S) == CHOOSE m \in S : \A x \in S : x <= m

LastNonSpace(l) == MaxOf({k \in 1..Len(l) : ~IsSpace(l[k])})

LastStart(l) == MaxOf(TokenStarts(l))

FirstStart(l) == CHOOSE m \in TokenStarts(l) : \A x \in TokenStarts(l) : m <= x

\* the last token of a line that has one
LastTokenOf(l) == SubSeq(l, LastStart(l), LastNonSpace(l))

\* the line from its first token to the end of the token before the last
WordRegion(l) ==
  SubSeq(l, FirstStart(l), MaxOf({k \in 1..(LastStart(l) - 1) : ~IsSpace(l[k])}))

\* every maximal run of whitespace replaced by one space
RECURSIVE Collapse(_)
Collapse(s) ==
  IF s = <<>> THEN <<>>
  ELSE IF IsSpace(Head(s))
       THEN (IF Len(s) > 1 /\ IsSpace(s[2]) THEN <<>> ELSE <<" ">>) \o Collapse(Tail(s))
       ELSE <<Head(s)>> \o Collapse(Tail(s))

RECURSIVE Pow10(_)
Pow10(n) == IF n = 0 THEN 1 ELSE 10 * Pow10(n - 1)

RECURSIVE PlaceSum(_)
PlaceSum(d) ==
  IF d = <<>> THEN 0 ELSE DigitVal(Head(d)) * Pow10(Len(d) - 1) + PlaceSum(Tail(d))

\* the value of a decimal literal, by place value
DecimalValue(t) ==
  LET m == PlaceSum(SelectSeq(t, IsDigit)) IN IF t[1] = "-" THEN 0 - m ELSE m

IsBlankLine(l) == \A k \in 1..Len(l) : IsSpace(l[k])

IsAcceptedLine(l) == TokenCount(l) >= 2 /\ IntParses(LastTokenOf(l))

IsRejectedLine(l) == ~IsBlankLine(l) /\ ~IsAcceptedLine(l)

NotRejectedLine(l) == ~IsRejectedLine(l)

\* the entry an accepted line stands for
EntryOf(l) == [w |-> Collapse(WordRegion(l)), f |-> DecimalValue(LastTokenOf(l))]

EntriesOf(lines) ==
  LET acc == SelectSeq(lines, IsAcceptedLine) IN [k \in 1..Len(acc) |-> EntryOf(acc[k])]

\* the conversion of job j has run to its end in the current run
Settled(j) == \E k \in 1..Len(out) : out[k].ev = "complete" /\ out[k].job = j

FirstNL(s) ==
  IF \E k \in 1..Len(s) : s[k] = "\n"
  THEN CHOOSE k \in 1..Len(s) : s[k] = "\n" /\ \A m \in 1..(k - 1) : s[m] # "\n"
  ELSE 0

\* the text cut at its newlines
RECURSIVE SplitNL(_)
SplitNL(s) ==
  LET k == FirstNL(s) IN
  IF k = 0 THEN <<s>>
  ELSE <<SubSeq(s, 1, k - 1)>> \o SplitNL(SubSeq(s, k + 1, Len(s)))

\* the jobs of the "complete" messages of one run, in order
Converted(o) ==
  LET c == SelectSeq(o, LAMBDA e : e.ev = "complete") IN [k \in 1..Len(c) |-> c[k].job]

NotFound(o) ==
  LET c == SelectSeq(o, LAMBDA e : e.ev = "not_found") IN [k \in 1..Len(c) |-> c[k].job]

\* the jobs below c whose source exists (or not), ascending
RECURSIVE JobsBelow(_, _)
JobsBelow(c, ex) ==
  IF c <= 1 THEN <<>>
  ELSE JobsBelow(c - 1, ex) \o (IF src[c - 1].exists = ex THEN <<c - 1>> ELSE <<>>)

InJob == pc \in {"read", "open_dst", "write_head", "write_entries"}

LastEvent == out[Len(out)]

\* the console output of the conversion in progress, after its "Reading" line
JobOutput ==
  LET o == out
      s == MaxOf({k \in 1..Len(o) : o[k].ev = "reading"})
  IN SubSeq(o, s + 1, Len(o))


(* ------------------------------ properties ----------------------------- *)
\* C1: the entries written for a file are exactly the entries of its accepted
\* lines, one per accepted line, in line order, duplicates kept: while the
\* entries are being written the entry list is that sequence, and once the
\* job is complete the k-th entry line of the destination renders the k-th
\* accepted line.
C1_Thm ==
  /\ pc \in {"open_dst", "write_head", "write_entries"} =>
       entries = EntriesOf(src[cur].lines)
  /\ \A j \in Jobs : Settled(j) =>
       LET es == EntriesOf(src[j].lines)
           body == SplitNL(dst[j].data)
       IN /\ Len(body) = Len(es) + 2
          /\ \A k \in 1..Len(es) :
               body[k + 1] \in {<<" ", " ">> \o JsonDumps(es[k]),
                                <<" ", " ">> \o JsonDumps(es[k]) \o <<",">>}

C1_Witness ==
  \E j \in Jobs :
    /\ Settled(j)
    /\ src[j].lines = <<LineA, LineB, LineA>>
    /\ Len(SplitNL(dst[j].data)) = 5

\* C3: a job whose source does not exist is skipped, its destination is never
\* created or modified, and the run goes on: at every loop head the jobs
\* converted so far in this run are the earlier jobs whose source exists, each
\* once and in configured order, and a run that reaches its end has converted
\* every job whose source exists.
C3_Thm ==
  [][/\ \A j \in Jobs : ~src[j].exists => dst'[j] = dst[j]
     /\ pc' = "loop" =>
          /\ Converted(out') = JobsBelow(cur', TRUE)
          /\ NotFound(out') = JobsBelow(cur', FALSE)
     /\ pc' = "done" =>
          /\ Converted(out') = JobsBelow(MaxJobs + 1, TRUE)
          /\ NotFound(out') = JobsBelow(MaxJobs + 1, FALSE)]_vars

C3_Witness ==
  /\ pc = "done"
  /\ \E j, k \in Jobs :
       /\ j < k
       /\ ~src[j].exists
       /\ src[k].exists
       /\ dst[j] \in DestFiles
       /\ Converted(out) = <<k>>
       /\ Settled(k)

\* C4: rejected lines add nothing and change nothing about the other lines:
\* two completed jobs whose sources are equal once the rejected lines are
\* removed have equal destinations.
C4_Thm ==
  \A j, k \in Jobs :
    (/\ Settled(j)
     /\ Settled(k)
     /\ SelectSeq(src[j].lines, NotRejectedLine) = SelectSeq(src[k].lines, NotRejectedLine))
    => dst[j].data = dst[k].data

C4_Witness ==
  \E j, k \in Jobs :
    /\ Settled(j)
    /\ Settled(k)
    /\ src[j].lines = <<LineA, LineBadFreq, LineB>>
    /\ src[k].lines = <<LineA, LineB>>
    /\ dst[j].data = dst[k].data

\* C5: an accepted line yields the entry whose frequency is the decimal value
\* of its last token and whose word is the text before the last token with
\* every run of whitespace replaced by one space.
C5_Thm ==
  (line_num = 1 /\ IsAcceptedLine(src[1].lines[1])) =>
    entries = <<EntryOf(src[1].lines[1])>>

C5_Witness ==
  /\ line_num = 1
  /\ IsAcceptedLine(src[1].lines[1])
  /\ TokenCount(src[1].lines[1]) >= 3
  /\ entries # <<>>
  /\ entries[1].w # WordRegion(src[1].lines[1])

\* C6: a completed destination is the line "[", then one line per entry, each
\* starting with two spaces and an object, all but the last ending with a
\* comma, then "]" without a newline after it; with no entry it is "[", a
\* newline and "]".
C6_Thm ==
  \A j \in Jobs : Settled(j) =>
    LET body == SplitNL(dst[j].data)
        n == Len(body) - 2
    IN /\ n >= 0
       /\ n = Len(EntriesOf(src[j].lines))
       /\ body[1] = <<"[">>
       /\ body[n + 2] = <<"]">>
       /\ \A k \in 1..n :
            LET ln == body[k + 1] IN
            /\ Len(ln) > 4
            /\ SubSeq(ln, 1, 3) = <<" ", " ", "{">>
            /\ IF k < n
               THEN SubSeq(ln, Len(ln) - 1, Len(ln)) = <<"}", ",">>
               ELSE ln[Len(ln)] = "}"
       /\ n = 0 => dst[j].data = <<"[", "\n", "]">>

C6_Witness ==
  \E j, k \in Jobs :
    /\ Settled(j)
    /\ Settled(k)
    /\ dst[j].data = <<"[", "\n", "]">>
    /\ Len(SplitNL(dst[k].data)) = 4

\* C7: every line read is blank, rejected or accepted and nothing else; the
\* entries so far number the accepted lines read, and the warnings so far are
\* one per rejected line read, in order, each carrying the 1-based position
\* of its line among all lines of the file.
C7_Thm ==
  InJob =>
    LET ls == SubSeq(src[cur].lines, 1, line_num)
        rej == {k \in 1..line_num : IsRejectedLine(ls[k])}
        acc == {k \in 1..line_num : IsAcceptedLine(ls[k])}
        blk == {k \in 1..line_num : IsBlankLine(ls[k])}
        w == SelectSeq(JobOutput, LAMBDA e : e.ev \in {"invalid_format", "invalid_frequency"})
    IN /\ blk \cap acc = {}
       /\ Len(entries) = Cardinality(acc)
       /\ Len(w) = Cardinality(rej)
       /\ \A k \in 1..Len(w) : w[k].n \in rej
       /\ \A k \in 1..(Len(w) - 1) : w[k].n < w[k + 1].n

C7_Witness ==
  /\ pc = "read"
  /\ line_num = 3
  /\ src[cur].lines = <<LineBlank, LineOneToken, LineA>>
  /\ Len(entries) = 1
  /\ \E k \in 1..Len(JobOutput) : JobOutput[k].ev = "invalid_format" /\ JobOutput[k].n = 2

\* the destination a source file determines
RECURSIVE EntryLines(_, _)
EntryLines(es, k) ==
  IF k > Len(es) THEN <<>>
  ELSE <<" ", " ">> \o JsonDumps(es[k]) \o (IF k < Len(es) THEN <<",">> ELSE <<>>)
       \o <<"\n">> \o EntryLines(es, k + 1)

ExpectedOutput(lines) == <<"[", "\n">> \o EntryLines(EntriesOf(lines), 1) \o <<"]">>

\* C8: once a job has completed, its destination is a function of its source
\* alone, whatever the destination held before (nothing, foreign content, or
\* the complete or partial output of an earlier run), so a repeated run
\* leaves the same destination.
C8_Thm ==
  \A j \in Jobs : Settled(j) =>
    dst[j] = [exists |-> TRUE, data |-> ExpectedOutput(src[j].lines)]

\* the second run has just converted job 1 again; job 2 still holds what the
\* first run wrote, so the first run had converted job 1 as well
C8_Witness ==
  /\ run = 2
  /\ pc = "loop"
  /\ cur = 2
  /\ Settled(1)
  /\ src[1].lines = <<LineA, LineB>>
  /\ src[2].exists
  /\ dst[2].data = ExpectedOutput(src[2].lines)
  /\ dst[1].data = ExpectedOutput(src[1].lines)

\* a token that is a minus sign and a decimal literal other than zero
IsNegativeToken(t) ==
  /\ Len(t) >= 2
  /\ t[1] = "-"
  /\ IsDigitBody(Tail(t))
  /\ \E k \in 2..Len(t) : IsDigit(t[k]) /\ t[k] # "0"

\* C9: a line whose last token is a negative integer is accepted: it yields
\* one entry, with that negative frequency, and no warning.
C9_Thm ==
  (/\ line_num = 1
   /\ TokenCount(src[1].lines[1]) >= 2
   /\ IsNegativeToken(LastTokenOf(src[1].lines[1])))
  => /\ Len(entries) = 1
     /\ entries[1].f < 0
     /\ entries[1].f = DecimalValue(LastTokenOf(src[1].lines[1]))
     /\ JobOutput = <<>>

C9_Witness ==
  /\ line_num = 1
  /\ Len(entries) = 1
  /\ entries[1].f < 0

\* C10: the destinations change only in the write phase of the current job,
\* which begins after the source has been read to its end; only the current
\* job's destination changes; a run that stops while reading stops with the
\* destinations as they were.
C10_Thm ==
  [][/\ pc = "read" => dst' = dst
     /\ dst' # dst =>
          /\ pc \in {"open_dst", "write_head", "write_entries"}
          /\ line_num = Len(src[cur].lines)
          /\ \A j \in Jobs \ {cur} : dst'[j] = dst[j]]_vars

C10_Witness ==
  /\ pc = "crashed"
  /\ LastEvent = Ev("traceback", cur, 0, <<"r">>)
  /\ line_num > 0
  /\ dst[cur] = [exists |-> TRUE, data |-> OldContent]

\* C2: a failure to write one job's destination aborts that job only: the run
\* never ends on a write failure while a later job with an existing source is
\* still to be converted.
C2_Claim ==
  ~(/\ pc = "crashed"
    /\ LastEvent = Ev("traceback", cur, 0, <<"w">>)
    /\ \E k \in Jobs : k > cur /\ src[k].exists)


====
